---------------------------- MODULE Spec2Model ----------------------------
(***************************************************************************)
(* Model of the MTP tree mirror (a variant of libmtp's examples/files.c):  *)
(* the PathStack linked list, current_path, should_copy, pushdir/popdir,   *)
(* exit_if_too_many_fails, the recursive dump_files and main.              *)
(*                                                                         *)
(* Two specifications:                                                     *)
(*   SpecStack  push_segment / pop_segment / current_path called in any    *)
(*              order on the PathStack (the unit-level view);              *)
(*   Spec       the whole program: main's device and storage loops and the *)
(*              recursive dump_files, against a remote store and a local   *)
(*              file system whose call outcomes are chosen by the          *)
(*              environment; the program may be run again on the local     *)
(*              tree a previous run left.                                  *)
(*                                                                         *)
(* malloc and strdup are taken to succeed.                                 *)
(***************************************************************************)
EXTENDS Integers, Sequences, FiniteSets, TLC

(***************************************************************************)
(* Bounds of the model                                                     *)
(***************************************************************************)
\* limits.h PATH_MAX (4096 on Linux); the code is parametric in it
PATH_MAX == 6
\* SpecStack: largest number of segments pushed
MaxDepth == 3
\* raw devices LIBMTP_Detect_Raw_Devices reports, and storages per device
NumDevices == 2
NumStorages == 3
\* how many times the program is run on the same local directory
MaxRuns == 2

(***************************************************************************)
(* Program constants                                                       *)
(***************************************************************************)
NULL == 0
\* if(fails > 10)
MAX_FAILS == 10
\* LIBMTP_FILES_AND_FOLDERS_ROOT (0xffffffff) passed as int leaf
LIBMTP_FILES_AND_FOLDERS_ROOT == -1
NUL == "NUL"
Slash == "/"

VARIABLES
    path_stack_first,   \* static path_segment_t *path_stack_first
    path_stack_last,    \* static path_segment_t *path_stack_last
    heap,               \* the malloc'ed path_segment_t nodes, by address
    status,             \* "running" | "exited" | "crashed" | "undefined"
    path_str,           \* the C string the last current_path() call returned
    oob,                \* bytes the last current_path() wrote past its buffer
    shadow,             \* ghost: names pushed and not yet popped, in push order
    last_op,            \* ghost: the last PathStack operation performed
    fails,              \* static int fails of exit_if_too_many_fails
    exit_code,          \* the process's exit status (-1 while it runs)
    main_pc,            \* where main is: "detect" | "devices" | "storages"
    i,                  \* main's device index
    storage,            \* main's position in device->storage (1-based)
    frames,             \* the active dump_files calls, outermost first
    cwd,                \* the process's working directory, below the mirror root
    dirs,               \* local directories that exist, as paths
    fsize,              \* local files that exist: path -> st_size
    layout,             \* which remote tree the devices hold
    drained,            \* the device error stack was cleared since the last listing
    npush,              \* ghost: push_segment calls of this run
    npop,               \* ghost: pop_segment calls of this run
    ev,                 \* ghost: what the last step did
    run,                \* ghost: which run of the program this is
    downloads,          \* ghost: downloads requested in this run
    unclean,            \* ghost: this run skipped a device or had a failed download
    prev_clean          \* ghost: the previous run ended with status 0 and ~unclean

pathvars == <<path_stack_first, path_stack_last, heap, status, path_str, oob,
              shadow, last_op>>
progvars == <<fails, exit_code, main_pc, i, storage, frames, cwd, dirs, fsize,
              layout, drained, npush, npop, ev, run, downloads, unclean,
              prev_clean>>
vars == <<pathvars, progvars>>

(***************************************************************************)
(* Strings are sequences of characters                                     *)
(***************************************************************************)
\* the segment names SpecStack pushes
Names == { <<"a">>, <<"b">>, <<"c">>, <<"l", "o", "n", "g">> }

RECURSIVE strlen_from(_, _)
strlen_from(buf, k) ==
    IF k > Len(buf) \/ buf[k] = NUL THEN 0 ELSE 1 + strlen_from(buf, k + 1)

\* the C string held in a char buffer: the characters before the first NUL
CString(buf) == SubSeq(buf, 1, strlen_from(buf, 1))

\* malloc: a fresh address (the lowest one not allocated)
malloc(h) ==
    CHOOSE a \in 1..(Cardinality(DOMAIN h) + 1) :
        /\ a \notin DOMAIN h
        /\ \A c \in 1..(a - 1) : c \in DOMAIN h

\* free
free(h, a) == [c \in (DOMAIN h) \ {a} |-> h[c]]

(***************************************************************************)
(* PathStack                                                               *)
(***************************************************************************)
\* push_segment without the seg->prev->next = seg link
push_segment_nolink(name) ==
    LET seg == malloc(heap)
        h1 == (seg :> [segment |-> name, prev |-> path_stack_last,
                       next |-> NULL]) @@ heap
    IN  [first |-> IF path_stack_first = NULL THEN seg ELSE path_stack_first,
         last |-> seg, heap |-> h1]

push_segment(name) ==
    LET seg == malloc(heap)
        h1 == (seg :> [segment |-> name, prev |-> path_stack_last,
                       next |-> NULL]) @@ heap
    IN  IF path_stack_first = NULL
        THEN [first |-> seg, last |-> seg, heap |-> h1]
        ELSE [first |-> path_stack_first, last |-> seg,
              heap |-> [h1 EXCEPT ![h1[seg].prev].next = seg]]

\* pop_segment without the reset of path_stack_first for the last node
pop_segment_keepfirst ==
    IF path_stack_last = NULL
    THEN [ub |-> TRUE, first |-> NULL, last |-> NULL, heap |-> heap]
    ELSE LET seg_to_free == path_stack_last
             last1 == heap[path_stack_last].prev
             h1 == IF last1 # NULL
                   THEN [heap EXCEPT ![last1].next = NULL] ELSE heap
         IN  [ub |-> FALSE, first |-> path_stack_first, last |-> last1,
              heap |-> free(h1, seg_to_free)]

\* pop_segment: ub is TRUE when path_stack_last->prev dereferences NULL
pop_segment ==
    IF path_stack_last = NULL
    THEN [ub |-> TRUE, first |-> NULL, last |-> NULL, heap |-> heap]
    ELSE LET first1 == IF path_stack_first = path_stack_last
                       THEN NULL ELSE path_stack_first
             seg_to_free == path_stack_last
             last1 == heap[path_stack_last].prev
             h1 == IF last1 # NULL
                   THEN [heap EXCEPT ![last1].next = NULL] ELSE heap
         IN  [ub |-> FALSE, first |-> first1, last |-> last1,
              heap |-> free(h1, seg_to_free)]

RECURSIVE count_segments(_, _, _)
count_segments(h, seg, fuel) ==
    IF seg = NULL \/ fuel = 0 THEN 0
    ELSE 1 + count_segments(h, h[seg].next, fuel - 1)

\* current_path_len on the list that starts at first in heap h
current_path_len(first, h) == count_segments(h, first, Cardinality(DOMAIN h))

\* *b++ = c, with b the offset from buf; buf has offsets 0..PATH_MAX
StoreChar(st, c) ==
    IF st.b <= PATH_MAX
    THEN [st EXCEPT !.buf[st.b + 1] = c, !.b = @ + 1]
    ELSE [st EXCEPT !.oob = @ + 1, !.b = @ + 1]

\* while(*s && b < last_char) *b++ = *s++;
RECURSIVE copy_segment(_, _, _)
copy_segment(st, s, k) ==
    IF k <= Len(s) /\ st.b < PATH_MAX
    THEN copy_segment(StoreChar(st, s[k]), s, k + 1)
    ELSE st

\* the for loop over the segments, each followed by '/'
RECURSIVE walk_segments(_, _, _, _)
walk_segments(h, seg, st, fuel) ==
    IF seg = NULL \/ fuel = 0 THEN st
    ELSE walk_segments(h, h[seg].next,
                       StoreChar(copy_segment(st, h[seg].segment, 1), Slash),
                       fuel - 1)

\* current_path on the list that starts at first in heap h: the buffer, the
\* number of bytes written past its end, and the string returned
current_path(first, h) ==
    LET st == walk_segments(h, first,
                  [buf |-> [j \in 1..(PATH_MAX + 1) |-> NUL], b |-> 0, oob |-> 0],
                  Cardinality(DOMAIN h))
        e == IF st.b < PATH_MAX THEN st.b ELSE PATH_MAX
        buf == [st.buf EXCEPT ![e + 1] = NUL]
    IN  [buf |-> buf, oob |-> st.oob, str |-> CString(buf)]

\* what the process does after undefined behaviour: it is killed, or it runs
\* on with memory in an unknown state
UBOutcomes == {"crashed", "undefined"}

\* the heaps that n bytes '/' stored past the end of buf can leave behind: the
\* bytes land in whatever lies behind the block, which may be nothing the
\* program uses or the start of a segment string of the list
Overflowed(h, n) ==
    IF n = 0 THEN {h}
    ELSE {h} \cup {[h EXCEPT ![a].segment[1] = Slash] : a \in DOMAIN h}

(***************************************************************************)
(* The remote store (libmtp itself, modelled at its interface)             *)
(***************************************************************************)
\* the storage id of the k-th storage of device dev (dev counted from 0)
StorageId(dev, k) == dev * NumStorages + k

\* a.size as this storage declares it: under layout "clash" the storages with
\* an even id declare another size for the same name
SizeOfA(storageid) ==
    IF layout = "clash" /\ storageid % 2 = 0 THEN 2 ELSE 1

\* the objects of one storage, in the order the device lists them:
\*   d/            a           d/e/          d/b
RemoteObjects(storageid) ==
    << [item_id |-> 1, filename |-> <<"d">>, filetype |-> "FOLDER",
        filesize |-> 0, parent_id |-> LIBMTP_FILES_AND_FOLDERS_ROOT,
        storage_id |-> storageid],
       [item_id |-> 2, filename |-> <<"a">>, filetype |-> "FILE",
        filesize |-> SizeOfA(storageid),
        parent_id |-> LIBMTP_FILES_AND_FOLDERS_ROOT, storage_id |-> storageid],
       [item_id |-> 3, filename |-> <<"e">>, filetype |-> "FOLDER",
        filesize |-> 0, parent_id |-> 1, storage_id |-> storageid],
       [item_id |-> 4, filename |-> <<"b">>, filetype |-> "FILE",
        filesize |-> 2, parent_id |-> 1, storage_id |-> storageid] >>

\* the list of LIBMTP_file_t under leaf; << >> is the NULL result
LIBMTP_Get_Files_And_Folders(storageid, leaf) ==
    LET IsChild(f) == f.parent_id = leaf
    IN  SelectSeq(RemoteObjects(storageid), IsChild)

\* how a download can end: the whole file written, the local file not even
\* opened, or a truncated file left behind
DownloadOutcomes == {"OK", "FAIL_UNTOUCHED", "FAIL_PARTIAL"}

\* LIBMTP_Get_File_To_File(device, id, path, NULL, NULL), path relative to cwd
LIBMTP_Get_File_To_File(file, path, outcome) ==
    LET p == cwd \o path
    IN  CASE outcome = "OK" ->
              [ret |-> 0,
               fsize |-> [q \in (DOMAIN fsize) \cup {p} |->
                             IF q = p THEN file.filesize ELSE fsize[q]]]
          [] outcome = "FAIL_PARTIAL" ->
              [ret |-> -1,
               fsize |-> [q \in (DOMAIN fsize) \cup {p} |->
                             IF q = p THEN 0 ELSE fsize[q]]]
          [] OTHER -> [ret |-> -1, fsize |-> fsize]

\* LIBMTP_Detect_Raw_Devices
DetectResults == {"LIBMTP_ERROR_NONE", "LIBMTP_ERROR_NO_DEVICE_ATTACHED",
                  "LIBMTP_ERROR_CONNECTING", "LIBMTP_ERROR_MEMORY_ALLOCATION",
                  "LIBMTP_ERROR_GENERAL"}

(***************************************************************************)
(* The local file system.  A path is a sequence of names below the mirror  *)
(* root; err is the failure the environment injects ("none" for no         *)
(* failure).                                                               *)
(***************************************************************************)
Errors == {"none", "EACCES"}

errno_value(e) ==
    CASE e = "ENOENT" -> 2 [] e = "EACCES" -> 13 [] e = "EEXIST" -> 17
      [] OTHER -> 0

\* the names of a pathname string, split at '/'
RECURSIVE SplitPath(_)
SplitPath(str) ==
    IF str = << >> THEN << >>
    ELSE LET k == CHOOSE n \in 0..Len(str) :
                    /\ \A j \in 1..n : str[j] # Slash
                    /\ (n = Len(str) \/ str[n + 1] = Slash)
         IN  (IF k = 0 THEN << >> ELSE << SubSeq(str, 1, k) >>)
             \o (IF k >= Len(str) THEN << >>
                 ELSE SplitPath(SubSeq(str, k + 2, Len(str))))

\* the path a pathname names, from the working directory wd
RECURSIVE Resolve(_, _)
Resolve(wd, names) ==
    IF names = << >> THEN wd
    ELSE IF Head(names) = <<".", ".">>
         THEN Resolve(IF wd = << >> THEN wd ELSE SubSeq(wd, 1, Len(wd) - 1),
                      Tail(names))
         ELSE Resolve(Append(wd, Head(names)), Tail(names))

IsDir(p, ds) == p = << >> \/ p \in ds

\* mkdir(pathname, 0755)
mkdir(pathname, err) ==
    LET p == Resolve(cwd, SplitPath(pathname))
    IN  IF err # "none" THEN [ret |-> -1, errno |-> err, dirs |-> dirs]
        ELSE IF IsDir(p, dirs) \/ p \in DOMAIN fsize
        THEN [ret |-> -1, errno |-> "EEXIST", dirs |-> dirs]
        ELSE [ret |-> 0, errno |-> "none", dirs |-> dirs \cup {p}]

\* chdir(pathname), in a file system whose directories are ds
chdir(pathname, ds, err) ==
    LET p == Resolve(cwd, SplitPath(pathname))
    IN  IF err # "none" THEN [ret |-> -1, errno |-> err, cwd |-> cwd]
        ELSE IF IsDir(p, ds) THEN [ret |-> 0, errno |-> "none", cwd |-> p]
        ELSE [ret |-> -1, errno |-> "ENOENT", cwd |-> cwd]

\* stat(pathname, &statbuf)
stat(pathname, err) ==
    LET p == Resolve(cwd, SplitPath(pathname))
    IN  IF err # "none" THEN [ret |-> -1, errno |-> err, st_size |-> 0]
        ELSE IF p \in DOMAIN fsize
        THEN [ret |-> 0, errno |-> "none", st_size |-> fsize[p]]
        ELSE IF IsDir(p, dirs)
        THEN [ret |-> 0, errno |-> "none", st_size |-> 0]
        ELSE [ret |-> -1, errno |-> "ENOENT", st_size |-> 0]

(***************************************************************************)
(* should_copy, pushdir, popdir, exit_if_too_many_fails                    *)
(***************************************************************************)
\* should_copy comparing with == where the code has !=
should_copy_eq(file, err) ==
    LET path == current_path(path_stack_first, heap)
        full_path == path.str \o file.filename
        st == stat(file.filename, err)
    IN  IF st.ret = -1
        THEN IF st.errno = "ENOENT"
             THEN [exit |-> FALSE, code |-> -1, retval |-> 1, path |-> path,
                   full_path |-> full_path]
             ELSE [exit |-> TRUE, code |-> errno_value(st.errno), retval |-> 0,
                   path |-> path, full_path |-> full_path]
        ELSE [exit |-> FALSE, code |-> -1,
              retval |-> IF st.st_size = file.filesize THEN 1 ELSE 0,
              path |-> path, full_path |-> full_path]

\* should_copy calling stat on full_path where the code has file->filename
should_copy_fullpath(file, err) ==
    LET path == current_path(path_stack_first, heap)
        full_path == path.str \o file.filename
        st == stat(full_path, err)
    IN  IF st.ret = -1
        THEN IF st.errno = "ENOENT"
             THEN [exit |-> FALSE, code |-> -1, retval |-> 1, path |-> path,
                   full_path |-> full_path]
             ELSE [exit |-> TRUE, code |-> errno_value(st.errno), retval |-> 0,
                   path |-> path, full_path |-> full_path]
        ELSE [exit |-> FALSE, code |-> -1,
              retval |-> IF st.st_size # file.filesize THEN 1 ELSE 0,
              path |-> path, full_path |-> full_path]

\* should_copy taking every stat failure for a missing file
should_copy_anyerr(file, err) ==
    LET path == current_path(path_stack_first, heap)
        full_path == path.str \o file.filename
        st == stat(file.filename, err)
    IN  IF st.ret = -1
        THEN [exit |-> FALSE, code |-> -1, retval |-> 1, path |-> path,
              full_path |-> full_path]
        ELSE [exit |-> FALSE, code |-> -1,
              retval |-> IF st.st_size # file.filesize THEN 1 ELSE 0,
              path |-> path, full_path |-> full_path]

should_copy(file, err) ==
    LET path == current_path(path_stack_first, heap)
        full_path == path.str \o file.filename
        st == stat(file.filename, err)
    IN  IF st.ret = -1
        THEN IF st.errno = "ENOENT"
             THEN [exit |-> FALSE, code |-> -1, retval |-> 1, path |-> path,
                   full_path |-> full_path]
             ELSE [exit |-> TRUE, code |-> errno_value(st.errno), retval |-> 0,
                   path |-> path, full_path |-> full_path]
        ELSE [exit |-> FALSE, code |-> -1,
              retval |-> IF st.st_size # file.filesize THEN 1 ELSE 0,
              path |-> path, full_path |-> full_path]

\* pushdir going on to push_segment when chdir failed
pushdir_nochdircheck(dirname, mkerr, cderr) ==
    LET mk == mkdir(dirname, mkerr)
        cd == chdir(dirname, mk.dirs, cderr)
        ps == push_segment(dirname)
    IN  IF mk.ret # 0 /\ mk.errno # "EEXIST"
        THEN [exit |-> TRUE, fatal |-> "mkdir", dirs |-> mk.dirs, cwd |-> cwd,
              pushed |-> 0, first |-> path_stack_first,
              last |-> path_stack_last, heap |-> heap]
        ELSE [exit |-> FALSE, fatal |-> IF cd.ret # 0 THEN "chdir" ELSE "",
              dirs |-> mk.dirs, cwd |-> cd.cwd,
              pushed |-> 1, first |-> ps.first, last |-> ps.last,
              heap |-> ps.heap]

\* pushdir as in examples/files.c: mkdir and chdir with no push_segment
pushdir_nopush(dirname, mkerr, cderr) ==
    LET mk == mkdir(dirname, mkerr)
        cd == chdir(dirname, mk.dirs, cderr)
    IN  IF mk.ret # 0 /\ mk.errno # "EEXIST"
        THEN [exit |-> TRUE, fatal |-> "mkdir", dirs |-> mk.dirs, cwd |-> cwd,
              pushed |-> 0, first |-> path_stack_first,
              last |-> path_stack_last, heap |-> heap]
        ELSE IF cd.ret # 0
        THEN [exit |-> TRUE, fatal |-> "chdir", dirs |-> mk.dirs, cwd |-> cwd,
              pushed |-> 0, first |-> path_stack_first,
              last |-> path_stack_last, heap |-> heap]
        ELSE [exit |-> FALSE, fatal |-> "", dirs |-> mk.dirs, cwd |-> cd.cwd,
              pushed |-> 0, first |-> path_stack_first,
              last |-> path_stack_last, heap |-> heap]

pushdir(dirname, mkerr, cderr) ==
    LET mk == mkdir(dirname, mkerr)
        cd == chdir(dirname, mk.dirs, cderr)
        ps == push_segment(dirname)
    IN  IF mk.ret # 0 /\ mk.errno # "EEXIST"
        THEN [exit |-> TRUE, fatal |-> "mkdir", dirs |-> mk.dirs, cwd |-> cwd,
              pushed |-> 0, first |-> path_stack_first,
              last |-> path_stack_last, heap |-> heap]
        ELSE IF cd.ret # 0
        THEN [exit |-> TRUE, fatal |-> "chdir", dirs |-> mk.dirs, cwd |-> cwd,
              pushed |-> 0, first |-> path_stack_first,
              last |-> path_stack_last, heap |-> heap]
        ELSE [exit |-> FALSE, fatal |-> "", dirs |-> mk.dirs, cwd |-> cd.cwd,
              pushed |-> 1, first |-> ps.first, last |-> ps.last,
              heap |-> ps.heap]

\* popdir as in examples/files.c: chdir("..") with no pop_segment
popdir_nopop(cderr) ==
    LET cd == chdir(<<".", ".">>, dirs, cderr)
    IN  IF cd.ret # 0
        THEN [exit |-> TRUE, ub |-> FALSE, cwd |-> cwd, popped |-> 0,
              first |-> path_stack_first, last |-> path_stack_last,
              heap |-> heap]
        ELSE [exit |-> FALSE, ub |-> FALSE, cwd |-> cd.cwd, popped |-> 0,
              first |-> path_stack_first, last |-> path_stack_last,
              heap |-> heap]

popdir(cderr) ==
    LET cd == chdir(<<".", ".">>, dirs, cderr)
        ps == pop_segment
    IN  IF cd.ret # 0
        THEN [exit |-> TRUE, ub |-> FALSE, cwd |-> cwd, popped |-> 0,
              first |-> path_stack_first, last |-> path_stack_last,
              heap |-> heap]
        ELSE [exit |-> FALSE, ub |-> ps.ub, cwd |-> cd.cwd, popped |-> 1,
              first |-> ps.first, last |-> ps.last, heap |-> ps.heap]

\* exit_if_too_many_fails comparing with >= where the code has >
exit_if_too_many_fails_ge ==
    LET fails1 == fails + 1
    IN  [fails |-> fails1, exit |-> fails1 >= MAX_FAILS]

\* exit_if_too_many_fails with a counter that is not static
exit_if_too_many_fails_auto ==
    LET fails1 == 0 + 1
    IN  [fails |-> fails1, exit |-> fails1 > MAX_FAILS]

exit_if_too_many_fails ==
    LET fails1 == fails + 1
    IN  [fails |-> fails1, exit |-> fails1 > MAX_FAILS]

(***************************************************************************)
(* dump_files, one operator per part of its body                           *)
(***************************************************************************)
\* the listing walked from its last entry to its first
dump_files_list_reversed(storageid, leaf) ==
    LET files == LIBMTP_Get_Files_And_Folders(storageid, leaf)
        rev == [k \in 1..Len(files) |-> files[Len(files) + 1 - k]]
    IN  [frame |-> [storageid |-> storageid, leaf |-> leaf, files |-> rev,
                    pos |-> 1, freed |-> << >>],
         drained |-> (files = << >>)]

\* the listing at the head of dump_files, and the error stack cleared only
\* when the listing is NULL.  A frame is one dump_files call: files is the
\* list it received, pos the position of its loop variable file in it, freed
\* the positions it has handed to LIBMTP_destroy_file_t, in order
dump_files_list(storageid, leaf) ==
    LET files == LIBMTP_Get_Files_And_Folders(storageid, leaf)
    IN  [frame |-> [storageid |-> storageid, leaf |-> leaf, files |-> files,
                    pos |-> 1, freed |-> << >>],
         drained |-> (files = << >>)]

\* the file branch as in examples/files.c: the download is not conditional
dump_files_file_always(file, sterr, outcome) ==
    LET sc == should_copy(file, sterr)
        dl == LIBMTP_Get_File_To_File(file, << file.filename >>, outcome)
        ef == exit_if_too_many_fails
    IN  IF sc.exit
        THEN [exit |-> TRUE, code |-> sc.code, fatal |-> "stat", sc |-> sc,
              requested |-> FALSE, failed |-> FALSE, fsize |-> fsize,
              fails |-> fails]
        ELSE IF dl.ret # 0
             THEN [exit |-> ef.exit, code |-> 1,
                   fatal |-> IF ef.exit THEN "fails" ELSE "", sc |-> sc,
                   requested |-> TRUE, failed |-> TRUE, fsize |-> dl.fsize,
                   fails |-> ef.fails]
             ELSE [exit |-> FALSE, code |-> -1, fatal |-> "", sc |-> sc,
                   requested |-> TRUE, failed |-> FALSE, fsize |-> dl.fsize,
                   fails |-> fails]

\* the file branch with a failed download not handed to
\* exit_if_too_many_fails
dump_files_file_norecord(file, sterr, outcome) ==
    LET sc == should_copy(file, sterr)
        dl == LIBMTP_Get_File_To_File(file, << file.filename >>, outcome)
    IN  IF sc.exit
        THEN [exit |-> TRUE, code |-> sc.code, fatal |-> "stat", sc |-> sc,
              requested |-> FALSE, failed |-> FALSE, fsize |-> fsize,
              fails |-> fails]
        ELSE IF sc.retval # 0
        THEN [exit |-> FALSE, code |-> -1, fatal |-> "", sc |-> sc,
              requested |-> TRUE, failed |-> (dl.ret # 0), fsize |-> dl.fsize,
              fails |-> fails]
        ELSE [exit |-> FALSE, code |-> -1, fatal |-> "", sc |-> sc,
              requested |-> FALSE, failed |-> FALSE, fsize |-> fsize,
              fails |-> fails]

\* the file branch: should_copy, the download, exit_if_too_many_fails
dump_files_file(file, sterr, outcome) ==
    LET sc == should_copy(file, sterr)
        dl == LIBMTP_Get_File_To_File(file, << file.filename >>, outcome)
        ef == exit_if_too_many_fails
    IN  IF sc.exit
        THEN [exit |-> TRUE, code |-> sc.code, fatal |-> "stat", sc |-> sc,
              requested |-> FALSE, failed |-> FALSE, fsize |-> fsize,
              fails |-> fails]
        ELSE IF sc.retval # 0
        THEN IF dl.ret # 0
             THEN [exit |-> ef.exit, code |-> 1,
                   fatal |-> IF ef.exit THEN "fails" ELSE "", sc |-> sc,
                   requested |-> TRUE, failed |-> TRUE, fsize |-> dl.fsize,
                   fails |-> ef.fails]
             ELSE [exit |-> FALSE, code |-> -1, fatal |-> "", sc |-> sc,
                   requested |-> TRUE, failed |-> FALSE, fsize |-> dl.fsize,
                   fails |-> fails]
        ELSE [exit |-> FALSE, code |-> -1, fatal |-> "", sc |-> sc,
              requested |-> FALSE, failed |-> FALSE, fsize |-> fsize,
              fails |-> fails]

\* the end of the loop body going two entries on
dump_files_advance_skip(frame) ==
    [frame EXCEPT !.pos = @ + 2, !.freed = Append(@, frame.pos)]

\* the end of the loop body without LIBMTP_destroy_file_t
dump_files_advance_leak(frame) == [frame EXCEPT !.pos = @ + 1]

\* tmp = file; file = file->next; LIBMTP_destroy_file_t(tmp);
dump_files_advance(frame) ==
    [frame EXCEPT !.pos = @ + 1, !.freed = Append(@, frame.pos)]

(***************************************************************************)
(* Spec: the program                                                       *)
(***************************************************************************)
Top == frames[Len(frames)]
\* the dump_files loop variable file; NULL past the end of the list
AtEntry == frames # << >> /\ Top.pos <= Len(Top.files)
CurFile == Top.files[Top.pos]
ReplaceTop(fr) == [frames EXCEPT ![Len(frames)] = fr]

\* op: the step; item: the entry it processed; mkerr, cderr, sterr, outcome:
\* what the environment answered to the mkdir, chdir, stat and download the
\* step made ("" when it made none); will_copy: should_copy's result;
\* requested: LIBMTP_Get_File_To_File was called; remote: a call to the remote
\* store was made; fatal: why the step ended the process
\* detect: what LIBMTP_Detect_Raw_Devices returned; rest: when a dump_files
\* call returned, how many entries of its list its loop body had not completed
NoEvent == [op |-> "none", item |-> 0, mkerr |-> "", cderr |-> "", sterr |-> "",
            outcome |-> "", will_copy |-> FALSE, requested |-> FALSE,
            remote |-> FALSE, fatal |-> "", detect |-> "", rest |-> 0]
Event(op, item) == [NoEvent EXCEPT !.op = op, !.item = item]

ProcessInit ==
    /\ path_stack_first = NULL
    /\ path_stack_last = NULL
    /\ heap = << >>
    /\ status = "running"
    /\ path_str = << >>
    /\ oob = 0
    /\ shadow = << >>
    /\ last_op = "none"
    /\ fails = 0
    /\ exit_code = -1
    /\ main_pc = "detect"
    /\ i = 0
    /\ storage = 0
    /\ frames = << >>
    /\ cwd = << >>
    /\ drained = TRUE
    /\ npush = 0
    /\ npop = 0
    /\ ev = NoEvent
    /\ downloads = 0
    /\ unclean = FALSE

Init ==
    /\ ProcessInit
    /\ dirs = {}
    /\ fsize = << >>
    /\ layout \in {"same", "clash"}
    /\ run = 1
    /\ prev_clean = FALSE

\* exit(code), or return code from main
Exit(code) ==
    /\ status' = "exited"
    /\ exit_code' = code

\* main's switch with the return of the connection error case returning 0
main_switch_connecting0(err) ==
    IF err = "LIBMTP_ERROR_NONE" THEN [exit |-> FALSE, code |-> -1]
    ELSE [exit |-> TRUE,
          code |-> IF err \in {"LIBMTP_ERROR_NO_DEVICE_ATTACHED",
                               "LIBMTP_ERROR_CONNECTING"} THEN 0 ELSE 1]

\* main's switch(err): go on, or return 0 or 1
main_switch(err) ==
    IF err = "LIBMTP_ERROR_NONE" THEN [exit |-> FALSE, code |-> -1]
    ELSE [exit |-> TRUE,
          code |-> IF err = "LIBMTP_ERROR_NO_DEVICE_ATTACHED" THEN 0 ELSE 1]

\* LIBMTP_Detect_Raw_Devices and the switch on its result
MainDetect ==
    /\ status = "running"
    /\ main_pc = "detect"
    /\ \E err \in DetectResults :
          /\ IF main_switch(err).exit
             THEN /\ Exit(main_switch(err).code)
                  /\ UNCHANGED main_pc
             ELSE /\ main_pc' = "devices"
                  /\ UNCHANGED <<status, exit_code>>
          /\ ev' = [Event("detect", 0) EXCEPT !.detect = err]
    /\ i' = 0
    /\ UNCHANGED <<path_stack_first, path_stack_last, heap, path_str, oob,
                   shadow, last_op, fails, storage, frames, cwd, dirs, fsize,
                   layout, drained, npush, npop, run, downloads, unclean,
                   prev_clean>>

\* the head of the device loop: LIBMTP_Open_Raw_Device_Uncached, the friendly
\* name, LIBMTP_Clear_Errorstack
MainOpenDevice ==
    /\ status = "running"
    /\ main_pc = "devices"
    /\ i < NumDevices
    /\ \E opened \in BOOLEAN :
          IF opened
          THEN /\ main_pc' = "storages"
               /\ storage' = 1
               /\ drained' = TRUE
               /\ UNCHANGED <<i, unclean>>
          ELSE /\ i' = i + 1
               /\ unclean' = TRUE
               /\ UNCHANGED <<main_pc, storage, drained>>
    /\ ev' = Event("open", 0)
    /\ UNCHANGED <<path_stack_first, path_stack_last, heap, status, path_str,
                   oob, shadow, last_op, fails, exit_code, frames, cwd, dirs,
                   fsize, layout, npush, npop, run, downloads, prev_clean>>

\* the storage loop calls dump_files(device, storage->id, ROOT)
MainDumpFiles ==
    /\ status = "running"
    /\ main_pc = "storages"
    /\ frames = << >>
    /\ storage <= NumStorages
    /\ LET c == dump_files_list(StorageId(i, storage),
                                LIBMTP_FILES_AND_FOLDERS_ROOT) IN
       /\ frames' = << c.frame >>
       /\ drained' = c.drained
    /\ ev' = [Event("list", 0) EXCEPT !.remote = TRUE]
    /\ UNCHANGED <<path_stack_first, path_stack_last, heap, status, path_str,
                   oob, shadow, last_op, fails, exit_code, main_pc, i, storage,
                   cwd, dirs, fsize, layout, npush, npop, run, downloads,
                   unclean, prev_clean>>

\* the storage loop is over: LIBMTP_Release_Device, i++
MainRelease ==
    /\ status = "running"
    /\ main_pc = "storages"
    /\ frames = << >>
    /\ storage > NumStorages
    /\ main_pc' = "devices"
    /\ i' = i + 1
    /\ ev' = Event("release", 0)
    /\ UNCHANGED <<path_stack_first, path_stack_last, heap, status, path_str,
                   oob, shadow, last_op, fails, exit_code, storage, frames,
                   cwd, dirs, fsize, layout, drained, npush, npop, run,
                   downloads, unclean, prev_clean>>

\* the device loop is over: exit(0)
MainExit ==
    /\ status = "running"
    /\ main_pc = "devices"
    /\ i = NumDevices
    /\ Exit(0)
    /\ ev' = Event("done", 0)
    /\ UNCHANGED <<path_stack_first, path_stack_last, heap, path_str, oob,
                   shadow, last_op, fails, main_pc, i, storage, frames, cwd,
                   dirs, fsize, layout, drained, npush, npop, run, downloads,
                   unclean, prev_clean>>

\* one loop iteration on a folder entry, up to and including the listing of
\* the recursive dump_files call: pushdir (pd), current_path (s), the call's
\* listing (c)
FolderEntry ==
    /\ status = "running"
    /\ AtEntry
    /\ CurFile.filetype = "FOLDER"
    /\ \E mkerr \in Errors :
       \E cderr \in (IF mkerr = "none" THEN Errors ELSE {""}) :
       \E pd \in {pushdir(CurFile.filename, mkerr, cderr)} :
       \E s \in {current_path(pd.first, pd.heap)} :
       \E c \in {dump_files_list(Top.storageid, CurFile.item_id)} :
              /\ dirs' = pd.dirs
              /\ cwd' = pd.cwd
              /\ path_stack_first' = pd.first
              /\ path_stack_last' = pd.last
              /\ heap' = pd.heap
              /\ npush' = npush + pd.pushed
              /\ shadow' = IF pd.pushed = 1
                           THEN Append(shadow, CurFile.filename) ELSE shadow
              /\ last_op' = IF pd.pushed = 1 THEN "push" ELSE last_op
              /\ IF pd.exit
                 THEN /\ Exit(1)
                      /\ ev' = [Event("folder", CurFile.item_id)
                                   EXCEPT !.fatal = pd.fatal,
                                          !.mkerr = mkerr, !.cderr = cderr]
                      /\ UNCHANGED <<path_str, oob, frames, drained>>
                 ELSE /\ path_str' = s.str
                      /\ oob' = s.oob
                      /\ status' \in (IF s.oob > 0 THEN UBOutcomes
                                      ELSE {"running"})
                      /\ frames' = Append(frames, c.frame)
                      /\ drained' = c.drained
                      /\ ev' = [Event("folder", CurFile.item_id)
                                   EXCEPT !.fatal = pd.fatal, !.remote = TRUE,
                                          !.mkerr = mkerr, !.cderr = cderr]
                      /\ UNCHANGED exit_code
    /\ UNCHANGED <<fails, main_pc, i, storage, fsize, layout, npop, run,
                   downloads, unclean, prev_clean>>

\* one loop iteration on a file entry
FileEntry ==
    /\ status = "running"
    /\ AtEntry
    /\ CurFile.filetype # "FOLDER"
    /\ \E sterr \in Errors, outcome \in DownloadOutcomes :
       \E r \in {dump_files_file(CurFile, sterr, outcome)} :
              /\ path_str' = r.sc.path.str
              /\ oob' = r.sc.path.oob
              /\ fsize' = r.fsize
              /\ fails' = r.fails
              /\ downloads' = downloads + (IF r.requested THEN 1 ELSE 0)
              /\ unclean' = (unclean \/ r.failed)
              /\ ev' = [Event("file", CurFile.item_id)
                           EXCEPT !.sterr = sterr,
                                  !.outcome = IF r.requested THEN outcome ELSE "",
                                  !.will_copy = (r.sc.retval # 0),
                                  !.requested = r.requested,
                                  !.remote = r.requested,
                                  !.fatal = r.fatal]
              /\ IF r.exit
                 THEN /\ Exit(r.code)
                      /\ UNCHANGED frames
                 ELSE /\ status' \in (IF r.sc.path.oob > 0 THEN UBOutcomes
                                      ELSE {"running"})
                      /\ frames' = ReplaceTop(dump_files_advance(Top))
                      /\ UNCHANGED exit_code
    /\ UNCHANGED <<path_stack_first, path_stack_last, heap, shadow, last_op,
                   main_pc, i, storage, cwd, dirs, layout, drained, npush,
                   npop, run, prev_clean>>

\* a recursive dump_files call returns: the caller's iteration goes on with
\* popdir (pd) and current_path (s), then moves to the next entry
FolderLeave ==
    /\ status = "running"
    /\ Len(frames) >= 2
    /\ ~AtEntry
    /\ \E cderr \in Errors :
       \E pd \in {popdir(cderr)} :
       \E s \in {current_path(pd.first, pd.heap)} :
          LET caller == frames[Len(frames) - 1]
              below == SubSeq(frames, 1, Len(frames) - 2)
          IN  /\ cwd' = pd.cwd
              /\ path_stack_first' = pd.first
              /\ path_stack_last' = pd.last
              /\ heap' = pd.heap
              /\ npop' = npop + pd.popped
              /\ shadow' = IF pd.popped = 1 /\ shadow # << >>
                           THEN SubSeq(shadow, 1, Len(shadow) - 1) ELSE shadow
              /\ last_op' = IF pd.popped = 0 THEN last_op
                            ELSE IF pd.ub THEN "pop_empty" ELSE "pop"
              /\ IF pd.exit
                 THEN /\ Exit(1)
                      /\ ev' = [Event("leave", caller.files[caller.pos].item_id)
                                   EXCEPT !.fatal = "chdir", !.cderr = cderr]
                      /\ UNCHANGED <<path_str, oob, frames>>
                 ELSE /\ path_str' = s.str
                      /\ oob' = s.oob
                      /\ status' \in (IF pd.ub \/ s.oob > 0 THEN UBOutcomes
                                      ELSE {"running"})
                      /\ frames' = Append(below, dump_files_advance(caller))
                      /\ ev' = [Event("leave", caller.files[caller.pos].item_id)
                                   EXCEPT !.cderr = cderr,
                                          !.rest = Len(Top.files)
                                                   - Len(Top.freed)]
                      /\ UNCHANGED exit_code
    /\ UNCHANGED <<fails, main_pc, i, storage, dirs, fsize, layout, drained,
                   npush, run, downloads, unclean, prev_clean>>

\* the top-level dump_files call returns to the storage loop
\* (storage = storage->next)
StorageDone ==
    /\ status = "running"
    /\ Len(frames) = 1
    /\ ~AtEntry
    /\ frames' = << >>
    /\ storage' = storage + 1
    /\ ev' = [Event("return", 0)
                 EXCEPT !.rest = Len(Top.files) - Len(Top.freed)]
    /\ UNCHANGED <<path_stack_first, path_stack_last, heap, status, path_str,
                   oob, shadow, last_op, fails, exit_code, main_pc, i, cwd,
                   dirs, fsize, layout, drained, npush, npop, run, downloads,
                   unclean, prev_clean>>

\* the program is started again in the mirror root, on the local tree the
\* run before left and the same remote tree
Restart ==
    /\ status # "running"
    /\ run < MaxRuns
    /\ run' = run + 1
    /\ prev_clean' = (status = "exited" /\ ev.op = "done" /\ ~unclean)
    /\ path_stack_first' = NULL
    /\ path_stack_last' = NULL
    /\ heap' = << >>
    /\ status' = "running"
    /\ path_str' = << >>
    /\ oob' = 0
    /\ shadow' = << >>
    /\ last_op' = "none"
    /\ fails' = 0
    /\ exit_code' = -1
    /\ main_pc' = "detect"
    /\ i' = 0
    /\ storage' = 0
    /\ frames' = << >>
    /\ cwd' = << >>
    /\ drained' = TRUE
    /\ npush' = 0
    /\ npop' = 0
    /\ ev' = Event("restart", 0)
    /\ downloads' = 0
    /\ unclean' = FALSE
    /\ UNCHANGED <<dirs, fsize, layout>>

Next ==
    \/ MainDetect
    \/ MainOpenDevice
    \/ MainDumpFiles
    \/ MainRelease
    \/ MainExit
    \/ FolderEntry
    \/ FileEntry
    \/ FolderLeave
    \/ StorageDone
    \/ Restart

Spec == Init /\ [][Next]_vars

\* the steps of one process: single-threaded code in which every library and
\* system call returns, so a process that can take a step takes it
ProcessStep ==
    \/ MainDetect
    \/ MainOpenDevice
    \/ MainDumpFiles
    \/ MainRelease
    \/ MainExit
    \/ FolderEntry
    \/ FileEntry
    \/ FolderLeave
    \/ StorageDone

SpecLive == Init /\ [][Next]_vars /\ WF_vars(ProcessStep)

(***************************************************************************)
(* SpecStack: the PathStack operations in any order                        *)
(***************************************************************************)
\* the process before main has done anything, in an empty mirror root
StackInit ==
    /\ ProcessInit
    /\ dirs = {}
    /\ fsize = << >>
    /\ layout = "same"
    /\ run = 1
    /\ prev_clean = FALSE

StackPush ==
    /\ status = "running"
    /\ Len(shadow) < MaxDepth
    /\ \E name \in Names :
          LET r == push_segment(name) IN
          /\ path_stack_first' = r.first
          /\ path_stack_last' = r.last
          /\ heap' = r.heap
          /\ shadow' = Append(shadow, name)
    /\ last_op' = "push"
    /\ UNCHANGED <<status, path_str, oob, progvars>>

StackPop ==
    /\ status = "running"
    /\ LET r == pop_segment IN
       /\ path_stack_first' = r.first
       /\ path_stack_last' = r.last
       /\ heap' = r.heap
       /\ status' \in (IF r.ub THEN UBOutcomes ELSE {"running"})
       /\ last_op' = IF r.ub THEN "pop_empty" ELSE "pop"
    /\ shadow' = IF shadow = << >> THEN shadow ELSE SubSeq(shadow, 1, Len(shadow) - 1)
    /\ UNCHANGED <<path_str, oob, progvars>>

StackPath ==
    /\ status = "running"
    /\ LET r == current_path(path_stack_first, heap) IN
       /\ path_str' = r.str
       /\ oob' = r.oob
       /\ status' \in (IF r.oob > 0 THEN UBOutcomes ELSE {"running"})
       /\ heap' \in Overflowed(heap, r.oob)
    /\ last_op' = "current_path"
    /\ UNCHANGED <<path_stack_first, path_stack_last, shadow, progvars>>

StackNext == StackPush \/ StackPop \/ StackPath

SpecStack == StackInit /\ [][StackNext]_vars

(***************************************************************************)
(* Properties                                                              *)
(***************************************************************************)
\* the names joined in order, each followed by '/'
RECURSIVE JoinPath(_)
JoinPath(names) ==
    IF names = << >> THEN << >>
    ELSE Head(names) \o << Slash >> \o JoinPath(Tail(names))

IsPrefix(s, t) == Len(s) <= Len(t) /\ SubSeq(t, 1, Len(s)) = s

StackEmpty == path_stack_first = NULL /\ path_stack_last = NULL

\* C1: pairing.  pop_segment is never called on an empty PathStack; while the
\* run has not aborted the pushes exceed the pops by exactly the number of
\* segments on the stack; and outside every top-level dump_files call (before
\* it, after it returned, and at normal completion) pushes equal pops and the
\* PathStack is empty.
C1_Pairing ==
    /\ last_op # "pop_empty"
    /\ npop <= npush
    /\ status = "running" =>
          npush - npop = current_path_len(path_stack_first, heap)
    /\ (\/ (status = "running" /\ frames = << >>)
        \/ (status = "exited" /\ ev.op = "done"))
          => (npush = npop /\ StackEmpty)

\* a storage with folders has been walked to the end and main is back in its
\* storage loop
C1_Witness ==
    /\ status = "running"
    /\ main_pc = "storages"
    /\ frames = << >>
    /\ storage > 1
    /\ npush >= 2
    /\ npush = npop

\* C2: path reconstruction.  While every operation so far was defined (no pop
\* of an empty stack) and the joined path fits PATH_MAX, what current_path
\* returned is the names pushed and not yet popped, in push order, each
\* followed by '/': the empty string for the empty stack.
C2_PathReconstruction ==
    (last_op = "current_path" /\ Len(JoinPath(shadow)) <= PATH_MAX)
        => (path_str = JoinPath(shadow) /\ oob = 0)

\* push a, b, c then current_path: "a/b/c/"
C2_Witness ==
    /\ last_op = "current_path"
    /\ shadow = << <<"a">>, <<"b">>, <<"c">> >>
    /\ path_str = << "a", "/", "b", "/", "c", "/" >>

\* C3: budget threshold.  The counter is 0 when the process starts; the run is
\* never active with the counter above 10; the exit for too many failures is
\* taken only by the 11th failure, and it ends the process with a non-zero
\* status.
C3_BudgetThreshold ==
    /\ main_pc = "detect" => fails = 0
    /\ status = "running" => fails <= MAX_FAILS
    /\ fails > MAX_FAILS =>
          (status = "exited" /\ exit_code > 0 /\ ev.fatal = "fails")
    /\ ev.fatal = "fails" => fails = MAX_FAILS + 1

\* the 11th failure, the failures spread over the storages of both devices
C3_Witness ==
    /\ fails = MAX_FAILS + 1
    /\ status = "exited"
    /\ exit_code = 1
    /\ i > 0

\* C4: change detection.  A step that evaluates should_copy on a file entry
\* (and is not ended by a stat failure) gets true exactly when the current
\* local directory has no file of that name or has one whose size differs from
\* the remote declared size.
C4_ChangeDetection ==
    [][(ev'.op = "file" /\ ev'.fatal # "stat") =>
          LET p == Append(cwd, CurFile.filename)
          IN  ev'.will_copy =
                 (p \notin DOMAIN fsize \/ fsize[p] # CurFile.filesize)]_vars

\* should_copy returned false: the local file has the remote size
C4_Witness ==
    /\ ev.op = "file"
    /\ ev.fatal = ""
    /\ ev.sterr = "none"
    /\ ~ev.will_copy
    /\ cwd # << >>

C6_BoundedPath ==
    last_op = "current_path" =>
        /\ oob = 0
        /\ Len(path_str) <= PATH_MAX
        /\ IsPrefix(path_str, JoinPath(shadow))

\* C7: fatal abort propagation.  A folder step whose mkdir fails (other than
\* by already-exists) or whose chdir fails ends the process with a non-zero
\* status and pushes no segment, lists nothing and touches no file; a folder
\* step with no such failure (the directory may exist already) enters the
\* directory; and once the process has exited nothing more happens in that
\* run.
C7_FatalAbort ==
    [][/\ ev'.op = "folder" =>
             LET p == Append(cwd, CurFile.filename)
             IN  IF ev'.mkerr # "none" \/ ev'.cderr # "none"
                 THEN /\ status' = "exited"
                      /\ exit_code' > 0
                      /\ ~ev'.remote
                      /\ UNCHANGED <<path_stack_first, path_stack_last, heap,
                                     npush, frames, cwd, fsize, downloads,
                                     fails>>
                 ELSE /\ status' = "running"
                      /\ cwd' = p
                      /\ p \in dirs'
                      /\ npush' = npush + 1
       /\ (status = "exited" /\ run' = run) => UNCHANGED vars]_vars

\* mkdir fails on the folder e inside d, whose sibling b is never reached
C7_Witness ==
    /\ ev.op = "folder"
    /\ ev.mkerr = "EACCES"
    /\ status = "exited"
    /\ Len(frames) = 2
    /\ Top.pos < Len(Top.files)

\* C8: folder vs. file dispatch.  A folder entry is never downloaded: its
\* directory exists after the step, is entered and listed, and is left when
\* the listing is exhausted.  A file entry causes no mkdir or chdir, and a
\* download is requested for it exactly when should_copy returned true; a
\* file whose local copy has the remote size is not downloaded.
C8_Dispatch ==
    [][/\ ev'.op = "folder" =>
             /\ CurFile.filetype = "FOLDER"
             /\ ~ev'.requested
             /\ downloads' = downloads
             /\ fsize' = fsize
             /\ status' = "running" =>
                   /\ Append(cwd, CurFile.filename) \in dirs'
                   /\ cwd' = Append(cwd, CurFile.filename)
                   /\ Len(frames') = Len(frames) + 1
                   /\ frames'[Len(frames')].leaf = CurFile.item_id
       /\ ev'.op = "file" =>
             LET p == Append(cwd, CurFile.filename)
             IN  /\ CurFile.filetype = "FILE"
                 /\ ev'.requested = ev'.will_copy
                 /\ downloads' = downloads + (IF ev'.will_copy THEN 1 ELSE 0)
                 /\ UNCHANGED <<dirs, cwd, path_stack_first, path_stack_last,
                                heap>>
                 /\ (p \in DOMAIN fsize /\ fsize[p] = CurFile.filesize) =>
                       (~ev'.requested /\ fsize' = fsize)
                 /\ (status' = "running" =>
                       /\ Len(frames') = Len(frames)
                       /\ frames'[Len(frames)].pos = Top.pos + 1)
       /\ (ev'.op = "leave" /\ status' = "running") =>
             /\ cwd' = SubSeq(cwd, 1, Len(cwd) - 1)
             /\ Len(frames') = Len(frames) - 1
             /\ frames'[Len(frames')].pos = frames[Len(frames) - 1].pos + 1
             /\ UNCHANGED <<downloads, fsize, dirs>>]_vars

\* in one run a directory was created, entered and left, one file was
\* downloaded, and now a file that matches by size has been skipped
C8_Witness ==
    /\ run = 1
    /\ ev.op = "file"
    /\ ev.sterr = "none"
    /\ ~ev.requested
    /\ downloads >= 1
    /\ npop >= 1
    /\ dirs # {}

\* C9: pop_segment on an empty PathStack is detected and ends the run with a
\* defined failure.
C9_PopEmptyDetected ==
    last_op = "pop_empty" => (status = "exited" /\ exit_code > 0)

\* C10: every call to the remote store is made with the error stack drained
\* since the last listing, whatever that listing returned.
C10_DrainAfterListing == [][ev'.remote => drained]_vars

\* C11: fail-fast on a local lookup failure.  A file step whose stat fails
\* for another reason than not-found ends the process at once with a non-zero
\* status: no download is requested, the failure counter, the local files and
\* the loop position are as before, and nothing more happens in that run.
C11_StatFailFast ==
    [][/\ (ev'.op = "file" /\ ev'.sterr # "none") =>
             /\ status' = "exited"
             /\ exit_code' > 0
             /\ ~ev'.requested
             /\ UNCHANGED <<fails, downloads, fsize, dirs, cwd, frames,
                            path_stack_first, path_stack_last, heap>>
       /\ (status = "exited" /\ ev.fatal = "stat" /\ run' = run) =>
             UNCHANGED vars]_vars

\* stat fails with EACCES on the file b inside d, after a was downloaded
C11_Witness ==
    /\ ev.op = "file"
    /\ ev.sterr = "EACCES"
    /\ ev.fatal = "stat"
    /\ status = "exited"
    /\ exit_code = errno_value("EACCES")
    /\ cwd # << >>
    /\ downloads >= 1

\* C12: exit status.  The process exits with status 0 exactly when main ran to
\* its end (every device opened or skipped, every storage of the opened ones
\* walked) or no device was found, whatever the number of failed downloads
\* below the budget; every other exit (connection, allocation or unknown
\* detection error, budget exhaustion, mkdir, chdir or stat failure) is
\* non-zero.
C12_ExitStatus ==
    status = "exited" =>
        /\ exit_code >= 0
        /\ (exit_code = 0) =
              (\/ (ev.op = "done" /\ i = NumDevices /\ frames = << >>)
               \/ (ev.op = "detect"
                   /\ ev.detect = "LIBMTP_ERROR_NO_DEVICE_ATTACHED"))
        /\ (ev.fatal # "" \/ (ev.op = "detect" /\ ev.detect
                # "LIBMTP_ERROR_NO_DEVICE_ATTACHED")) => exit_code > 0

\* normal completion with status 0 after some downloads failed
C12_Witness ==
    /\ status = "exited"
    /\ exit_code = 0
    /\ ev.op = "done"
    /\ fails >= 1
    /\ fails <= MAX_FAILS

\* the segment strings on the list from seg on, following next
RECURSIVE StackSegments(_, _, _)
StackSegments(h, seg, fuel) ==
    IF seg = NULL \/ fuel = 0 THEN << >>
    ELSE << h[seg].segment >> \o StackSegments(h, h[seg].next, fuel - 1)

\* the names on the PathStack, first to last
PathStack == StackSegments(heap, path_stack_first, Cardinality(DOMAIN heap))

\* C13: PathStack/working-directory alignment.  Wherever the traversal is
\* about to process an entry or has just returned from a directory, the
\* PathStack is the chain of directory names from the mirror root to the
\* working directory, its depth is the recursion depth of dump_files, and it
\* is empty exactly at the mirror root.  A segment is pushed only in a step
\* that created (or found) and entered the directory, and popped only in the
\* step that went back to the parent directory.
C13_Alignment ==
    /\ [](status = "running" =>
            /\ PathStack = cwd
            /\ Len(PathStack) = (IF frames = << >> THEN 0 ELSE Len(frames) - 1)
            /\ (PathStack = << >>) = (cwd = << >>)
            /\ IsDir(cwd, dirs))
    /\ [][run' = run =>
          /\ npush' # npush =>
                /\ npush' = npush + 1
                /\ ev'.op = "folder"
                /\ ev'.fatal = ""
                /\ cwd' = Append(cwd, CurFile.filename)
                /\ IsDir(cwd', dirs')
                /\ status' = "running" => PathStack' = cwd'
          /\ npop' # npop =>
                /\ npop' = npop + 1
                /\ ev'.op = "leave"
                /\ ev'.fatal = ""
                /\ cwd # << >>
                /\ cwd' = SubSeq(cwd, 1, Len(cwd) - 1)
                /\ status' = "running" => PathStack' = cwd'
          /\ cwd' # cwd => (npush' # npush \/ npop' # npop)
       ]_vars

\* the traversal is at the file b inside d/e's parent: two levels were entered
\* and one left again
C13_Witness ==
    /\ status = "running"
    /\ Len(frames) = 2
    /\ AtEntry
    /\ CurFile.filetype = "FILE"
    /\ PathStack = << <<"d">> >>
    /\ cwd = << <<"d">> >>
    /\ npush = 2
    /\ npop = 1

\* a step in which a requested download failed
DownloadFailed ==
    /\ ev'.op = "file"
    /\ ev'.requested
    /\ ev'.outcome \in {"FAIL_UNTOUCHED", "FAIL_PARTIAL"}

\* C14: transient failure handling.  A failed download that leaves the
\* counter at or below the budget is counted once, the process keeps running
\* and the loop moves to the next sibling: the file was requested once in that
\* step, no other loop position, storage or device index moves, and the
\* PathStack and the working directory are as before.
C14_TransientFailure ==
    [][(DownloadFailed /\ fails < MAX_FAILS) =>
          /\ fails' = fails + 1
          /\ status' = "running"
          /\ downloads' = downloads + 1
          /\ Len(frames') = Len(frames)
          /\ frames'[Len(frames)].pos = Top.pos + 1
          /\ frames'[Len(frames)].files = Top.files
          /\ \A k \in 1..(Len(frames) - 1) : frames'[k] = frames[k]
          /\ UNCHANGED <<main_pc, i, storage, cwd, dirs, path_stack_first,
                         path_stack_last, heap, npush, npop>>]_vars

\* after a failed download of a in the root directory the loop is past a, the
\* last sibling, with the folder d walked before it
C14_Witness ==
    /\ status = "running"
    /\ ev.op = "file"
    /\ ev.requested
    /\ ev.outcome = "FAIL_PARTIAL"
    /\ fails = 2
    /\ Len(frames) = 1
    /\ Top.pos = Len(Top.files) + 1

\* the dump_files calls in progress are nested: every call below the
\* innermost is at a folder entry and the call above it is the visit of that
\* folder on the same storage
Nested ==
    \A k \in 1..(Len(frames) - 1) :
        /\ frames[k].pos <= Len(frames[k].files)
        /\ frames[k].files[frames[k].pos].filetype = "FOLDER"
        /\ frames[k + 1].leaf = frames[k].files[frames[k].pos].item_id
        /\ frames[k + 1].storageid = frames[k].storageid

\* C15: strict depth-first, in-order processing.  Every directory visit walks
\* the list the remote store returned, in that order, one entry per step;
\* the visits in progress form one chain of nested calls (never two at the
\* same depth); and the loop of a call moves past a folder entry only when
\* the recursive call for that folder has reached the end of its own list
\* and returned.
C15_DepthFirstInOrder ==
    /\ [](/\ \A k \in 1..Len(frames) :
               /\ frames[k].files =
                     LIBMTP_Get_Files_And_Folders(frames[k].storageid,
                                                  frames[k].leaf)
               /\ frames[k].pos \in 1..(Len(frames[k].files) + 1)
          /\ Nested
          /\ frames # << >> => frames[1].leaf = LIBMTP_FILES_AND_FOLDERS_ROOT)
    /\ [][(frames' # frames /\ run' = run) =>
            \/ \* a file entry was processed: on to the next sibling
               /\ ev'.op = "file"
               /\ ev'.item = CurFile.item_id
               /\ CurFile.filetype = "FILE"
               /\ Len(frames') = Len(frames)
               /\ frames'[Len(frames)].pos = Top.pos + 1
               /\ \A k \in 1..(Len(frames) - 1) : frames'[k] = frames[k]
            \/ \* a folder entry: its visit starts at its first entry
               /\ ev'.op = "folder"
               /\ ev'.item = CurFile.item_id
               /\ CurFile.filetype = "FOLDER"
               /\ Len(frames') = Len(frames) + 1
               /\ frames'[Len(frames')].pos = 1
               /\ \A k \in 1..Len(frames) : frames'[k] = frames[k]
            \/ \* the visit of a folder is over: the caller goes on
               /\ ev'.op = "leave"
               /\ Len(frames) >= 2
               /\ Top.pos = Len(Top.files) + 1
               /\ Len(frames') = Len(frames) - 1
               /\ ev'.item = frames[Len(frames')].files[frames[Len(frames')].pos].item_id
               /\ frames'[Len(frames')].pos = frames[Len(frames')].pos + 1
               /\ \A k \in 1..(Len(frames') - 1) : frames'[k] = frames[k]
            \/ \* the top-level call starts or is over
               /\ ev'.op = "list"
               /\ frames = << >>
               /\ Len(frames') = 1
               /\ frames'[1].pos = 1
            \/ /\ ev'.op = "return"
               /\ Len(frames) = 1
               /\ Top.pos = Len(Top.files) + 1
               /\ frames' = << >>
       ]_vars

\* inside d the folder e has been walked and left, and the loop of d's visit
\* is at e's next sibling b, while the root's loop still stands at d
C15_Witness ==
    /\ status = "running"
    /\ Len(frames) = 2
    /\ ev.op = "leave"
    /\ ev.item = 3
    /\ Top.leaf = 1
    /\ Top.pos = 2
    /\ CurFile.item_id = 4
    /\ frames[1].pos = 1

\* C16: termination, no partial walk.  Every run ends (by exit or abort);
\* in every dump_files call in progress the entries before the loop position
\* are exactly those whose loop body was completed, and a call that has
\* returned to its caller had completed the loop body for every entry of its
\* list: a visit is walked to its end or cut short by the end of the process.
C16_TerminationNoPartialWalk ==
    /\ (status = "running") ~> (status # "running")
    /\ [](/\ \A k \in 1..Len(frames) :
               /\ Len(frames[k].freed) = frames[k].pos - 1
               /\ frames[k].pos <= Len(frames[k].files) + 1
          /\ (ev.op \in {"leave", "return"} /\ ev.fatal = "") => ev.rest = 0)

\* a run has ended normally after the last storage of the last device was
\* walked: folders were entered and left and files requested
C16_Witness ==
    /\ status = "exited"
    /\ ev.op = "done"
    /\ i = NumDevices
    /\ frames = << >>
    /\ npush = npop
    /\ npush = 2 * NumDevices * NumStorages
    /\ downloads >= 1

\* the positions 1..n in order
Iota(n) == [k \in 1..n |-> k]

\* C17: entry ownership.  In every dump_files call the entries released so
\* far are exactly those before the loop position, each released once and in
\* list order, so the entry a step processes has not been released; an entry
\* is released by the step that ends its own processing (for a folder: the
\* step in which its recursive call has returned and popdir was done), which
\* is also the step that moves the loop to the next sibling; and at normal
\* completion no call is left holding entries.
C17_EntryOwnership ==
    /\ [](/\ \A k \in 1..Len(frames) :
               frames[k].freed = Iota(frames[k].pos - 1)
          /\ (ev.op \in {"leave", "return"} /\ ev.fatal = "") => ev.rest = 0
          /\ (status = "exited" /\ ev.op = "done") => frames = << >>)
    /\ [][run' = run =>
            /\ \A k \in 1..Len(frames) :
                  (k <= Len(frames') /\ frames'[k].freed # frames[k].freed) =>
                      /\ k = Len(frames')
                      /\ frames'[k].freed = Append(frames[k].freed, frames[k].pos)
                      /\ frames'[k].pos = frames[k].pos + 1
                      /\ ev'.item = frames[k].files[frames[k].pos].item_id
                      /\ \/ ev'.op = "file" /\ k = Len(frames)
                         \/ /\ ev'.op = "leave"
                            /\ k = Len(frames) - 1
                            /\ npop' = npop + 1
                            /\ Top.pos = Len(Top.files) + 1
            /\ ev'.op \in {"file", "folder"} =>
                  /\ ev'.item = CurFile.item_id
                  /\ \A j \in 1..Len(Top.freed) : Top.freed[j] # Top.pos
       ]_vars

\* the folder d, whose visit recursed into e, has been released after its
\* popdir and the loop of the root call is at d's sibling a
C17_Witness ==
    /\ status = "running"
    /\ Len(frames) = 1
    /\ ev.op = "leave"
    /\ ev.item = 1
    /\ Top.freed = << 1 >>
    /\ Top.pos = 2
    /\ npop = 2

\* C18: failure-counter frame.  Within a run the failure counter starts at
\* 0 and changes only in a step in which a requested download failed, by
\* exactly +1: successful downloads, skipped files, folder entry and exit,
\* listings, and moving to the next storage or device leave it as it is.
\* Recording the failure changes nothing else: PathStack, working directory
\* and directories are unchanged, and the local files are as the failed
\* download left them.
C18_FailureCounterFrame ==
    /\ [](fails >= 0 /\ (ev.op \in {"none", "restart"} => fails = 0))
    /\ [][run' = run =>
            /\ fails' # fails => (DownloadFailed /\ fails' = fails + 1)
            /\ DownloadFailed =>
                  /\ fails' = fails + 1
                  /\ fsize' = LIBMTP_Get_File_To_File(CurFile,
                                  << CurFile.filename >>, ev'.outcome).fsize
                  /\ UNCHANGED <<cwd, dirs, path_stack_first, path_stack_last,
                                 heap, npush, npop, main_pc, i, storage>>
            /\ (ev'.op = "file" /\ ~DownloadFailed) => fails' = fails
       ]_vars

\* with failures counted on the first device, the walk has moved on to the
\* second device and entered a folder there, and a partial file is still
\* where its failed download left it
C18_Witness ==
    /\ status = "running"
    /\ i = 1
    /\ ev.op = "folder"
    /\ fails = 3
    /\ \E p \in DOMAIN fsize : fsize[p] = 0

\* C19: current_path is side-effect-free.  A call of current_path leaves
\* path_stack_first, path_stack_last and every node of the list (segment,
\* prev, next) as they were, and a call that directly follows another call
\* returns the same string.
C19_SideEffectFree ==
    [][last_op' = "current_path" =>
          /\ UNCHANGED <<path_stack_first, path_stack_last, heap>>
          /\ last_op = "current_path" => path_str' = path_str]_vars

\* the addresses of the nodes from seg on, following next while the node is
\* allocated
RECURSIVE Chain(_, _, _)
Chain(h, seg, fuel) ==
    IF seg = NULL \/ seg \notin DOMAIN h \/ fuel = 0 THEN << >>
    ELSE << seg >> \o Chain(h, h[seg].next, fuel - 1)

\* C20: linked-list well-formedness.  After any pushes and pops with no pop
\* of an empty stack, path_stack_first is NULL exactly when path_stack_last
\* is NULL; otherwise first->prev and last->next are NULL, following next
\* from first passes exactly (pushes - pops) allocated nodes and ends at
\* last, and prev is the inverse of next along that chain.
C20_ListWellFormed ==
    (status = "running" /\ last_op # "pop_empty") =>
        LET chain == Chain(heap, path_stack_first, Cardinality(DOMAIN heap) + 1)
            n == Len(chain)
        IN  /\ (path_stack_first = NULL) = (path_stack_last = NULL)
            /\ (path_stack_first = NULL) = (shadow = << >>)
            /\ path_stack_first # NULL =>
                  /\ path_stack_first \in DOMAIN heap
                  /\ path_stack_last \in DOMAIN heap
                  /\ heap[path_stack_first].prev = NULL
                  /\ heap[path_stack_last].next = NULL
                  /\ n = Len(shadow)
                  /\ chain[n] = path_stack_last
                  /\ \A k \in 1..(n - 1) :
                        /\ heap[chain[k]].next = chain[k + 1]
                        /\ heap[chain[k + 1]].prev = chain[k]
                  /\ \A j, k \in 1..n : chain[j] = chain[k] => j = k

\* three nodes were pushed and the last one popped: a list of two nodes
C20_Witness ==
    /\ status = "running"
    /\ last_op = "pop"
    /\ Len(shadow) = MaxDepth - 1
    /\ Len(shadow) >= 2
    /\ path_stack_first # path_stack_last
    /\ heap[path_stack_first].next = path_stack_last
    /\ heap[path_stack_last].segment = <<"l", "o", "n", "g">>

=============================================================================
